---- MODULE Spec2Model ----
(***************************************************************************)
(* jutella: the chat context (chat_client/context.rs), the chat client's   *)
(* requests (chat_client/client.rs) and the completion stream              *)
(* (chat_client/stream.rs).                                                *)
(*                                                                         *)
(* A text is a sequence of tokens; the tokenizer counts them.  An          *)
(* Option<T> is <<>> for None and <<x>> for Some(x).                       *)
(***************************************************************************)
EXTENDS Integers, Sequences, FiniteSets, TLC

VARIABLES
    system_message,      \* Context::system_message : Option<String>
    min_history_tokens,  \* Context::min_history_tokens : Option<usize>
    max_history_tokens,  \* Context::max_history_tokens : Option<usize>
    conversation,        \* Context::conversation : Vec<(String, String)>
    pushed,              \* history: every turn ever handed to Context::push
    state,               \* CompletionStream::state
    request,             \* CompletionStream::request
    pc,                  \* position of the stream's consumer: none | idle | loop
    before,              \* history: conversation and pushed when the stream was created
    consumed,            \* history: events read from the underlying stream
    yielded,             \* history: items poll_next returned (Ok / Err / End)
    last                 \* the outcome of the latest request_completion call

vars == <<system_message, min_history_tokens, max_history_tokens, conversation,
          pushed, state, request, pc, before, consumed, yielded, last>>

ctx_vars == <<system_message, min_history_tokens, max_history_tokens,
              conversation, pushed>>

stream_vars == <<state, request, pc, before, consumed, yielded>>

----------------------------------------------------------------------------
(* Bounds of the model. *)

\* Pushes explored on one context.
MaxPushes == 3

\* Largest configured min/max token limit.
MaxLimit == 3

\* Events read from the underlying stream of one response.
MaxEvents == 5

\* Polls recorded after the stream has terminated.
MaxEndPolls == 1

----------------------------------------------------------------------------
(* Option<T>. *)

None == <<>>

Some(x) == <<x>>

IsSome(o) == o # <<>>

\* Option::unwrap_or
UnwrapOr(o, d) == IF o = <<>> THEN d ELSE o[1]

\* Stands for usize::MAX; every total of the model is far below it.
UsizeMax == 2147483647

----------------------------------------------------------------------------
(* Context (chat_client/context.rs). *)

\* tokenizer.encode_with_special_tokens(m).len()
NumTokens(m) == Len(m)

\* Context::tokenizer is set by new_with_rolling_window only, which the
\* client calls exactly when a limit is configured.
HasTokenizer(min, max) == IsSome(min) \/ IsSome(max)

SystemTokens(sys) == IF sys = None THEN 0 ELSE NumTokens(sys[1])

TransactionTokens(t) == NumTokens(t.request) + NumTokens(t.response)

\* The scan of keep_recent: conv is read newest first from index i down,
\* acc is the accumulator of `accumulate`, n the count so far.  map_while
\* stops at the first prev >= min_tokens, take_while at the first
\* current > max_tokens.
RECURSIVE KeepScan(_, _, _, _, _, _)
KeepScan(conv, i, acc, min_tokens, max_tokens, n) ==
    IF i = 0 THEN n
    ELSE LET prev == acc
             current == acc + TransactionTokens(conv[i])
         IN  IF ~(prev < min_tokens) THEN n
             ELSE IF ~(current <= max_tokens) THEN n
             ELSE KeepScan(conv, i - 1, current, min_tokens, max_tokens, n + 1)

\* keep_recent with take_while testing `current < max_tokens`.
KeepCountStrictMax(sys, min, max, conv) ==
    KeepScan(conv, Len(conv), SystemTokens(sys),
             UnwrapOr(min, UsizeMax), UnwrapOr(max, UsizeMax) - 1, 0)

\* keep_recent with the accumulator started at 0 instead of the tokens of
\* the system message.
KeepCountNoSystem(sys, min, max, conv) ==
    KeepScan(conv, Len(conv), 0,
             UnwrapOr(min, UsizeMax), UnwrapOr(max, UsizeMax), 0)

\* keep_recent with map_while testing `prev <= min_tokens`.
KeepCountInclusiveMin(sys, min, max, conv) ==
    KeepScan(conv, Len(conv), SystemTokens(sys),
             IF IsSome(min) THEN min[1] + 1 ELSE UsizeMax,
             UnwrapOr(max, UsizeMax), 0)

\* keep_recent with map_while testing `current < min_tokens`: the turn that
\* crosses the minimum is discarded too.
KeepCountMinOnCurrent(sys, min, max, conv) ==
    LET below == UnwrapOr(min, UsizeMax) - 1
        max_tokens == UnwrapOr(max, UsizeMax)
    IN  KeepScan(conv, Len(conv), SystemTokens(sys), UsizeMax,
                 IF below < max_tokens THEN below ELSE max_tokens, 0)

KeepCount(sys, min, max, conv) ==
    KeepScan(conv, Len(conv), SystemTokens(sys),
             UnwrapOr(min, UsizeMax), UnwrapOr(max, UsizeMax), 0)

\* keep_recent that never discards the newest turn.
KeepRecentKeepsNewest(sys, min, max, conv) ==
    IF ~HasTokenizer(min, max) THEN conv
    ELSE LET count == KeepCount(sys, min, max, conv)
             keep == IF count = 0 /\ conv # <<>> THEN 1 ELSE count
             discard == Len(conv) - keep
         IN  SubSeq(conv, discard + 1, Len(conv))

\* keep_recent without the early return, the unset limits defaulting to 0.
KeepRecentDefaultLimits(sys, min, max, conv) ==
    LET keep == KeepScan(conv, Len(conv), SystemTokens(sys),
                         UnwrapOr(min, 0), UnwrapOr(max, 0), 0)
        discard == Len(conv) - keep
    IN  SubSeq(conv, discard + 1, Len(conv))

\* keep_recent draining `0..=discard`.
KeepRecentInclusiveDrain(sys, min, max, conv) ==
    IF ~HasTokenizer(min, max) THEN conv
    ELSE LET keep == KeepCount(sys, min, max, conv)
             discard == Len(conv) - keep
         IN  SubSeq(conv, discard + 2, Len(conv))

\* keep_recent draining the newest turns, `keep..`, instead of the oldest.
KeepRecentDrainsNewest(sys, min, max, conv) ==
    IF ~HasTokenizer(min, max) THEN conv
    ELSE SubSeq(conv, 1, KeepCount(sys, min, max, conv))

\* keep_recent draining `0..keep`: as many turns as it should retain.
KeepRecentDrainsKeep(sys, min, max, conv) ==
    IF ~HasTokenizer(min, max) THEN conv
    ELSE LET keep == KeepCount(sys, min, max, conv)
         IN  SubSeq(conv, keep + 1, Len(conv))

\* Context::keep_recent
KeepRecent(sys, min, max, conv) ==
    IF ~HasTokenizer(min, max) THEN conv
    ELSE LET keep == KeepCount(sys, min, max, conv)
             discard == Len(conv) - keep
         IN  SubSeq(conv, discard + 1, Len(conv))

Turn(req, resp) == [request |-> req, response |-> resp]

\* push trimming before it appends: the new turn is never counted.
PushTrimsFirst(sys, min, max, conv, req, resp) ==
    Append(KeepRecent(sys, min, max, conv), Turn(req, resp))

\* Context::push
Push(sys, min, max, conv, req, resp) ==
    KeepRecent(sys, min, max, Append(conv, Turn(req, resp)))

\* ChatClient::extend_context, as a step on the context variables.
ExtendContext(req, resp) ==
    /\ conversation' = Push(system_message, min_history_tokens,
                            max_history_tokens, conversation, req, resp)
    /\ pushed' = Append(pushed, Turn(req, resp))
    /\ UNCHANGED <<system_message, min_history_tokens, max_history_tokens>>

----------------------------------------------------------------------------
(* Inputs. *)

SystemMessages == {None, Some(<<"to">>), Some(<<"to", "to">>)}

Limits == {None} \cup {Some(n) : n \in 0..MaxLimit}

Requests == {<<>>, <<"do">>}

Responses == {<<>>, <<"be">>, <<"be", "be">>}

----------------------------------------------------------------------------
(* CompletionStream::state (chat_client/stream.rs). *)

St(tag) == [tag |-> tag, partial_response |-> <<>>]

ReceivingContent(partial) ==
    [tag |-> "ReceivingContent", partial_response |-> partial]

\* CompletionStream::new
NewStream(req) ==
    /\ state = St("WaitingForData")
    /\ request = req
    /\ pc = "idle"
    /\ consumed = <<>>
    /\ yielded = <<>>

\* No stream borrows the client.
NoStream ==
    /\ state = St("WaitingForData")
    /\ request = <<>>
    /\ pc = "none"
    /\ consumed = <<>>
    /\ yielded = <<>>

----------------------------------------------------------------------------
(* ChatClient (chat_client/client.rs): the non-streaming request. *)

\* The result of the API call and the fields of its first-popped choice.
ApiResults ==
    [transport_ok : {FALSE}, choices : {0}, message_ok : {FALSE},
     content : {None}, refusal : {None}]
    \cup
    [transport_ok : {TRUE}, choices : {0}, message_ok : {FALSE},
     content : {None}, refusal : {None}]
    \cup
    [transport_ok : {TRUE}, choices : {1}, message_ok : {FALSE},
     content : {None}, refusal : {None}]
    \cup
    [transport_ok : {TRUE}, choices : {1}, message_ok : {TRUE},
     content : {None} \cup {Some(r) : r \in Responses},
     refusal : {None, Some(<<"no">>)}]

\* ChatClient::request_completion up to the point where it returns or
\* extends the context.
CompletionResult(api) ==
    IF ~api.transport_ok THEN [ok |-> FALSE, what |-> "OpenAiClient"]
    ELSE IF api.choices = 0 THEN [ok |-> FALSE, what |-> "NoChoices"]
    ELSE IF ~api.message_ok THEN [ok |-> FALSE, what |-> "InvalidMessage"]
    ELSE IF api.content = None
         THEN IF api.refusal = None
              THEN [ok |-> FALSE, what |-> "NoContent"]
              ELSE [ok |-> FALSE, what |-> "Refusal"]
    ELSE [ok |-> TRUE, what |-> "Completion"]

\* request_completion extending the context before it inspects the choice:
\* a response without content is pushed as an empty one.
RequestCompletionPushesFirst(req, api) ==
    /\ pc = "none"
    /\ Len(pushed) < MaxPushes
    /\ last' = CompletionResult(api)
    /\ IF api.transport_ok
       THEN ExtendContext(req, UnwrapOr(api.content, <<>>))
       ELSE UNCHANGED ctx_vars
    /\ UNCHANGED stream_vars

\* ChatClient::request_completion (ChatClient::ask maps its result).
RequestCompletion(req, api) ==
    /\ pc = "none"
    /\ Len(pushed) < MaxPushes
    /\ last' = CompletionResult(api)
    /\ IF CompletionResult(api).ok
       THEN ExtendContext(req, api.content[1])
       ELSE UNCHANGED ctx_vars
    /\ UNCHANGED stream_vars

\* The client after ChatClient::new_with_client_and_tokenizer.
CtxInit ==
    /\ system_message \in SystemMessages
    /\ min_history_tokens \in Limits
    /\ max_history_tokens \in Limits
    /\ conversation = <<>>
    /\ pushed = <<>>
    /\ before = [conversation |-> <<>>, pushed |-> <<>>]
    /\ last = [ok |-> TRUE, what |-> "none"]
    /\ NoStream

CtxNext == \E req \in Requests, api \in ApiResults : RequestCompletion(req, api)

CtxSpec == CtxInit /\ [][CtxNext]_vars

----------------------------------------------------------------------------
(* Context::with_request (chat_client/context.rs). *)

\* Calls of with_request explored between two pushes.
MaxCalls == 2

\* SystemMessage::new(content).into()
SystemMessage(content) == [role |-> "system", content |-> content]

\* UserMessage::new(content).into()
UserMessage(content) == [role |-> "user", content |-> content]

\* AssistantMessage::new(content).into()
AssistantMessage(content) == [role |-> "assistant", content |-> content]

\* `self.conversation.iter().flat_map(|(request, response)| [user, assistant])`
RECURSIVE ConversationMessages(_)
ConversationMessages(conv) ==
    IF conv = <<>> THEN <<>>
    ELSE <<UserMessage(Head(conv).request),
           AssistantMessage(Head(conv).response)>>
         \o ConversationMessages(Tail(conv))

\* with_request chaining the new request before the conversation.
WithRequestRequestFirst(sys, conv, req) ==
    (IF IsSome(sys) THEN <<SystemMessage(sys[1])>> ELSE <<>>)
    \o <<UserMessage(req)>>
    \o ConversationMessages(conv)

\* Context::with_request
WithRequest(sys, conv, req) ==
    (IF IsSome(sys) THEN <<SystemMessage(sys[1])>> ELSE <<>>)
    \o ConversationMessages(conv)
    \o <<UserMessage(req)>>

\* The calls of with_request since the context was last pushed to.
Calls == IF last.what = "with_request" THEN last.calls ELSE 0

\* with_request taking the conversation out of the context.
WithRequestCallTakes(req) ==
    /\ pc = "none"
    /\ Calls < MaxCalls
    /\ last' = [ok |-> TRUE, what |-> "with_request", request |-> req,
                calls |-> Calls + 1,
                messages |-> WithRequest(system_message, conversation, req)]
    /\ conversation' = <<>>
    /\ UNCHANGED <<system_message, min_history_tokens, max_history_tokens,
                   pushed, stream_vars>>

\* context.with_request(request).collect(), as ChatClient::body and the
\* tests call it; `last` keeps the messages collected.
WithRequestCall(req) ==
    /\ pc = "none"
    /\ Calls < MaxCalls
    /\ last' = [ok |-> TRUE, what |-> "with_request", request |-> req,
                calls |-> Calls + 1,
                messages |-> WithRequest(system_message, conversation, req)]
    /\ UNCHANGED <<ctx_vars, stream_vars>>

\* A client before its first request.
ReadInit ==
    /\ system_message \in SystemMessages
    /\ \E limits \in {<<None, None>>, <<Some(2), None>>, <<None, Some(3)>>} :
          /\ min_history_tokens = limits[1]
          /\ max_history_tokens = limits[2]
    /\ conversation = <<>>
    /\ pushed = <<>>
    /\ before = [conversation |-> <<>>, pushed |-> <<>>]
    /\ last = [ok |-> TRUE, what |-> "none"]
    /\ NoStream

ReadNext ==
    \/ \E req \in Requests, api \in ApiResults : RequestCompletion(req, api)
    \/ \E req \in Requests : WithRequestCall(req)

ReadSpec == ReadInit /\ [][ReadNext]_vars

----------------------------------------------------------------------------
(* The unit tests of Context (chat_client/context.rs, mod tests). *)

\* Pushes explored by one test.
MaxTestPushes == 5

\* n tokens `tok`: "to to to to to" is Repeat("to", 5).
Repeat(tok, n) == [i \in 1..n |-> tok]

\* Tokens of each of the tests' strings.
TestTokens == 5

TestSystem == Repeat("to", TestTokens)

TestRequest == Repeat("do", TestTokens)

TestResponse == Repeat("be", TestTokens)

\* The responses pushed: the tests' own, an empty and a double one, so that
\* turns of 5, 10 and 15 tokens are pushed.
TestResponses == {<<>>, TestResponse, TestResponse \o TestResponse}

\* Some(20) of min_history_tokens and min_history_tokens_exact.
TestMin == 20

\* Some(30) of max_history_tokens and max_history_tokens_exact.
TestMax == 30

\* The limits of the four rolling-window tests.
TestLimits == {<<Some(TestMin), None>>, <<None, Some(TestMax)>>}

\* context.push(request.clone(), response.clone()) of a test.
TestPush(resp) ==
    /\ pc = "none"
    /\ Len(pushed) < MaxTestPushes
    /\ ExtendContext(TestRequest, resp)
    /\ UNCHANGED <<stream_vars, last>>

\* Context::new_with_rolling_window as the tests call it, with and without
\* the system message.
TestInit ==
    /\ system_message \in {None, Some(TestSystem)}
    /\ \E limits \in TestLimits :
          /\ min_history_tokens = limits[1]
          /\ max_history_tokens = limits[2]
    /\ conversation = <<>>
    /\ pushed = <<>>
    /\ before = [conversation |-> <<>>, pushed |-> <<>>]
    /\ last = [ok |-> TRUE, what |-> "none"]
    /\ NoStream

TestNext == \E resp \in TestResponses : TestPush(resp)

TestSpec == TestInit /\ [][TestNext]_vars

----------------------------------------------------------------------------
(* CompletionStream (chat_client/stream.rs). *)

\* Texts of the deltas the service sends.
Fragments == {<<>>, <<"Hi">>, <<" there">>}

Thoughts == {<<"hm">>}

\* A decoded StreamingChunk: whether serde_json accepted the payload, the
\* number of choices, and the fields of the popped choice.
Chunks ==
    [json_ok : {FALSE}, choices : {0}, usage : {FALSE}, reasoning : {None},
     content : {None}, refusal : {None}, finish_reason : {FALSE}]
    \cup
    [json_ok : {TRUE}, choices : {0}, usage : BOOLEAN, reasoning : {None},
     content : {None}, refusal : {None}, finish_reason : {FALSE}]
    \cup
    [json_ok : {TRUE}, choices : {1}, usage : BOOLEAN,
     reasoning : {None} \cup {Some(t) : t \in Thoughts},
     content : {None} \cup {Some(t) : t \in Fragments},
     refusal : {None, Some(<<"no">>)}, finish_reason : BOOLEAN]

\* Result<Option<Delta>, Error> of parse_stream_chunk.
Parsed(tag, type, text) == [tag |-> tag, type |-> type, text |-> text]

\* parse_stream_chunk looking at the content before the reasoning.
ParseStreamChunkContentFirst(chunk) ==
    IF ~chunk.json_ok THEN Parsed("Err", "DeltaJsonError", <<>>)
    ELSE IF chunk.choices = 0
         THEN IF chunk.usage
              THEN Parsed("Delta", "Usage", <<>>)
              ELSE Parsed("Err", "NoChoices", <<>>)
    ELSE IF IsSome(chunk.content)
         THEN Parsed("Delta", "Content", chunk.content[1])
    ELSE IF IsSome(chunk.reasoning)
         THEN Parsed("Delta", "Reasoning", chunk.reasoning[1])
    ELSE IF IsSome(chunk.refusal)
         THEN Parsed("Err", "Refusal", chunk.refusal[1])
    ELSE IF chunk.finish_reason
         THEN Parsed("Ignore", "None", <<>>)
    ELSE Parsed("Err", "NoContent", <<>>)

\* parse_stream_chunk
ParseStreamChunk(chunk) ==
    IF ~chunk.json_ok THEN Parsed("Err", "DeltaJsonError", <<>>)
    ELSE IF chunk.choices = 0
         THEN IF chunk.usage
              THEN Parsed("Delta", "Usage", <<>>)
              ELSE Parsed("Err", "NoChoices", <<>>)
    ELSE IF IsSome(chunk.reasoning)
         THEN Parsed("Delta", "Reasoning", chunk.reasoning[1])
    ELSE IF IsSome(chunk.content)
         THEN Parsed("Delta", "Content", chunk.content[1])
    ELSE IF IsSome(chunk.refusal)
         THEN Parsed("Err", "Refusal", chunk.refusal[1])
    ELSE IF chunk.finish_reason
         THEN Parsed("Ignore", "None", <<>>)
    ELSE Parsed("Err", "NoContent", <<>>)

\* The payloads parse_stream_chunk is called on by itself: those of the
\* stream, and the same with two choices, of which `pop` takes the last.
ParseChunks ==
    Chunks \cup {[c EXCEPT !.choices = 2] : c \in {d \in Chunks : d.choices = 1}}

\* parse_stream_chunk(&event.data) called on one payload; `last` keeps the
\* payload and the result.
ParseChunk(chunk) ==
    /\ pc = "none"
    /\ last' = [ok |-> ParseStreamChunk(chunk).tag # "Err",
                what |-> "parse_stream_chunk",
                chunk |-> chunk,
                parsed |-> ParseStreamChunk(chunk)]
    /\ UNCHANGED <<ctx_vars, stream_vars>>

\* No stream and an empty context: only the decoder runs.
ParseInit ==
    /\ system_message = None
    /\ min_history_tokens = None
    /\ max_history_tokens = None
    /\ conversation = <<>>
    /\ pushed = <<>>
    /\ before = [conversation |-> <<>>, pushed |-> <<>>]
    /\ last = [ok |-> TRUE, what |-> "none"]
    /\ NoStream

ParseNext == \E chunk \in ParseChunks : ParseChunk(chunk)

ParseSpec == ParseInit /\ [][ParseNext]_vars

\* Option<Result<Delta, Error>>, the item of the stream.
Item(kind, type, text) == [kind |-> kind, type |-> type, text |-> text]

ItemEnd == Item("End", "None", <<>>)

\* An event read from the underlying stream, as the history keeps it.
Event(ev, parsed) == [ev |-> ev, parsed |-> parsed]

NoPayload == Parsed("None", "None", <<>>)

\* State::finalize without the test for an empty response.
FinalizeKeepEmpty(old_state) ==
    IF old_state.tag = "ReceivingContent"
    THEN Some(old_state.partial_response)
    ELSE None

\* State::finalize without the match on the old state: the partial
\* response of any state, empty in all but ReceivingContent, is returned.
FinalizeAnyState(old_state) == Some(old_state.partial_response)

\* State::finalize: the response accumulated in the state that is left.
Finalize(old_state) ==
    IF old_state.tag = "ReceivingContent" /\ old_state.partial_response # <<>>
    THEN Some(old_state.partial_response)
    ELSE None

\* The flush pushing the response under an empty request.
FinalizeIntoEmptyRequest(new_tag) ==
    /\ state' = St(new_tag)
    /\ IF IsSome(Finalize(state))
       THEN ExtendContext(<<>>, Finalize(state)[1])
       ELSE UNCHANGED ctx_vars

\* `if let Some(response) = this.state.finalize(new_state)
\*      { this.client.extend_context(this.request.clone(), response) }`
FinalizeInto(new_tag) ==
    /\ state' = St(new_tag)
    /\ IF IsSome(Finalize(state))
       THEN ExtendContext(request, Finalize(state)[1])
       ELSE UNCHANGED ctx_vars

\* `return Poll::Ready(item)`
Return(item) ==
    /\ yielded' = Append(yielded, item)
    /\ pc' = "idle"

\* `continue`
Continue ==
    /\ pc' = pc
    /\ yielded' = yielded

\* The polls answered on a terminated stream: the End items that follow the
\* item that terminated it.
RECURSIVE TrailingEnds(_)
TrailingEnds(items) ==
    IF items = <<>> \/ items[Len(items)] # ItemEnd THEN 0
    ELSE 1 + TrailingEnds(SubSeq(items, 1, Len(items) - 1))

EndPolls(items) ==
    IF items # <<>> /\ items[Len(items)].kind = "Err"
    THEN 0
    ELSE TrailingEnds(items) - 1

Read(event) ==
    /\ pc = "loop"
    /\ Len(consumed) < MaxEvents
    /\ consumed' = Append(consumed, event)
    /\ UNCHANGED <<request, before, last>>

\* poll_next without the early return for a terminated stream.
PollTerminatedReads ==
    /\ pc = "idle"
    /\ state.tag = "Terminated"
    /\ pc' = "loop"
    /\ UNCHANGED <<ctx_vars, state, request, before, consumed, yielded, last>>

\* poll_next on a terminated stream.
PollTerminated ==
    /\ pc = "idle"
    /\ state.tag = "Terminated"
    /\ EndPolls(yielded) < MaxEndPolls
    /\ Return(ItemEnd)
    /\ UNCHANGED <<ctx_vars, state, request, before, consumed, last>>

\* poll_next on a live stream enters the loop.
PollEnter ==
    /\ pc = "idle"
    /\ state.tag # "Terminated"
    /\ pc' = "loop"
    /\ UNCHANGED <<ctx_vars, state, request, before, consumed, yielded, last>>

\* The underlying stream is not ready: `ready!` returns Poll::Pending.
StreamPending ==
    /\ pc = "loop"
    /\ pc' = "idle"
    /\ UNCHANGED <<ctx_vars, state, request, before, consumed, yielded, last>>

\* The sentinel taken for the end of the underlying stream.
StreamDoneTerminates ==
    /\ Read(Event("Done", NoPayload))
    /\ FinalizeInto("Terminated")
    /\ Return(ItemEnd)

\* The sentinel putting the stream back into its initial state.
StreamDoneResets ==
    /\ Read(Event("Done", NoPayload))
    /\ FinalizeInto("WaitingForData")
    /\ Continue

\* The sentinel flushing the partial response without leaving the state.
StreamDoneKeepsState ==
    /\ Read(Event("Done", NoPayload))
    /\ state' = state
    /\ IF IsSome(Finalize(state))
       THEN ExtendContext(request, Finalize(state)[1])
       ELSE UNCHANGED ctx_vars
    /\ Continue

\* Some(Ok(event)) with event.data == "[DONE]"
StreamDone ==
    /\ Read(Event("Done", NoPayload))
    /\ FinalizeInto("WaitingForEndOfStream")
    /\ Continue

\* A transport error returned without terminating the stream.
StreamErrorKeepsState ==
    /\ Read(Event("Err", NoPayload))
    /\ Return(Item("Err", "StreamError", <<>>))
    /\ UNCHANGED <<ctx_vars, state>>

\* Some(Err(e))
StreamError ==
    /\ Read(Event("Err", NoPayload))
    /\ FinalizeInto("Terminated")
    /\ Return(Item("Err", "StreamError", <<>>))

\* The end of the underlying stream without the flush.
StreamEndNoFlush ==
    /\ Read(Event("End", NoPayload))
    /\ state' = St("Terminated")
    /\ Return(ItemEnd)
    /\ UNCHANGED ctx_vars

\* The end of the underlying stream passed over: the loop polls again.
StreamEndPollsAgain ==
    /\ Read(Event("End", NoPayload))
    /\ state' = state
    /\ Continue
    /\ UNCHANGED ctx_vars

\* None
StreamEnd ==
    /\ Read(Event("End", NoPayload))
    /\ FinalizeInto("Terminated")
    /\ Return(ItemEnd)

\* The finish-reason marker taken for the end of the response.
DataIgnoreTerminates ==
    /\ FinalizeInto("Terminated")
    /\ Return(ItemEnd)

\* parse_stream_chunk gave Ok(None)
DataIgnore ==
    /\ Continue
    /\ UNCHANGED <<ctx_vars, state>>

\* A decode error or refusal returned without the flush.
DataErrorNoFlush(parsed) ==
    /\ state' = St("Terminated")
    /\ Return(Item("Err", parsed.type, parsed.text))
    /\ UNCHANGED ctx_vars

\* A payload that fails to decode after the sentinel discarded like a
\* delta: the stream ends without an error.
DataErrorAfterDoneDiscarded(parsed) ==
    IF state.tag = "WaitingForEndOfStream"
    THEN /\ state' = St("Terminated")
         /\ Return(ItemEnd)
         /\ UNCHANGED ctx_vars
    ELSE /\ FinalizeInto("Terminated")
         /\ Return(Item("Err", parsed.type, parsed.text))

\* parse_stream_chunk gave Err(e)
DataError(parsed) ==
    /\ FinalizeInto("Terminated")
    /\ Return(Item("Err", parsed.type, parsed.text))

\* The first Content delta entering ReceivingContent with an empty partial.
DeltaWhileWaitingEmptyPartial(delta) ==
    /\ state' = CASE delta.type = "Reasoning" -> St("ReceivingReasoning")
                  [] delta.type = "Content" -> ReceivingContent(<<>>)
                  [] delta.type = "Usage" -> St("WaitingForDone")
    /\ Return(Item("Ok", delta.type, delta.text))
    /\ UNCHANGED ctx_vars

\* A delta in State::WaitingForData | State::ReceivingReasoning
DeltaWhileWaiting(delta) ==
    /\ state' = CASE delta.type = "Reasoning" -> St("ReceivingReasoning")
                  [] delta.type = "Content" -> ReceivingContent(delta.text)
                  [] delta.type = "Usage" -> St("WaitingForDone")
    /\ Return(Item("Ok", delta.type, delta.text))
    /\ UNCHANGED ctx_vars

\* A Content delta replacing the partial response instead of extending it.
DeltaWhileReceivingContentReplace(delta) ==
    CASE delta.type = "Reasoning" ->
            /\ FinalizeInto("Terminated")
            /\ Return(Item("Err", "reasoning after content", <<>>))
      [] delta.type = "Content" ->
            /\ state' = ReceivingContent(delta.text)
            /\ Return(Item("Ok", delta.type, delta.text))
            /\ UNCHANGED ctx_vars
      [] delta.type = "Usage" ->
            /\ FinalizeInto("WaitingForDone")
            /\ Return(Item("Ok", delta.type, delta.text))

\* A Usage delta leaving ReceivingContent without the flush.
DeltaWhileReceivingContentUsageNoFlush(delta) ==
    CASE delta.type = "Reasoning" ->
            /\ FinalizeInto("Terminated")
            /\ Return(Item("Err", "reasoning after content", <<>>))
      [] delta.type = "Content" ->
            /\ state' = ReceivingContent(state.partial_response \o delta.text)
            /\ Return(Item("Ok", delta.type, delta.text))
            /\ UNCHANGED ctx_vars
      [] delta.type = "Usage" ->
            /\ state' = St("WaitingForDone")
            /\ Return(Item("Ok", delta.type, delta.text))
            /\ UNCHANGED ctx_vars

\* Every Content delta written to the context as it arrives.
DeltaWhileReceivingContentEagerPush(delta) ==
    CASE delta.type = "Reasoning" ->
            /\ FinalizeInto("Terminated")
            /\ Return(Item("Err", "reasoning after content", <<>>))
      [] delta.type = "Content" ->
            /\ state' = ReceivingContent(state.partial_response \o delta.text)
            /\ Return(Item("Ok", delta.type, delta.text))
            /\ ExtendContext(request, state.partial_response \o delta.text)
      [] delta.type = "Usage" ->
            /\ FinalizeInto("WaitingForDone")
            /\ Return(Item("Ok", delta.type, delta.text))

\* A delta in State::ReceivingContent
DeltaWhileReceivingContent(delta) ==
    CASE delta.type = "Reasoning" ->
            /\ FinalizeInto("Terminated")
            /\ Return(Item("Err", "reasoning after content", <<>>))
      [] delta.type = "Content" ->
            /\ state' = ReceivingContent(state.partial_response \o delta.text)
            /\ Return(Item("Ok", delta.type, delta.text))
            /\ UNCHANGED ctx_vars
      [] delta.type = "Usage" ->
            /\ FinalizeInto("WaitingForDone")
            /\ Return(Item("Ok", delta.type, delta.text))

\* The messages of Reasoning and Content after usage exchanged.
DeltaWhileWaitingForDoneSwapped(delta) ==
    /\ state' = St("Terminated")
    /\ Return(Item("Err",
                   CASE delta.type = "Reasoning" -> "content after usage"
                     [] delta.type = "Content" -> "reasoning after usage"
                     [] delta.type = "Usage" -> "duplicate usage",
                   <<>>))
    /\ UNCHANGED ctx_vars

\* A delta after usage passed on to the caller.
DeltaWhileWaitingForDonePasses(delta) ==
    /\ state' = state
    /\ Return(Item("Ok", delta.type, delta.text))
    /\ UNCHANGED ctx_vars

\* A delta in State::WaitingForDone
DeltaWhileWaitingForDone(delta) ==
    /\ state' = St("Terminated")
    /\ Return(Item("Err",
                   CASE delta.type = "Reasoning" -> "reasoning after usage"
                     [] delta.type = "Content" -> "content after usage"
                     [] delta.type = "Usage" -> "duplicate usage",
                   <<>>))
    /\ UNCHANGED ctx_vars

\* A delta after the sentinel dropped while the stream keeps waiting for
\* the end of the underlying stream.
DeltaWhileWaitingForEndOfStreamWaits(delta) ==
    /\ state' = state
    /\ Continue
    /\ UNCHANGED ctx_vars

\* A delta in State::WaitingForEndOfStream
DeltaWhileWaitingForEndOfStream(delta) ==
    /\ state' = St("Terminated")
    /\ Return(ItemEnd)
    /\ UNCHANGED ctx_vars

\* `match this.state { ... }` on a decoded delta
OnDelta(delta) ==
    CASE state.tag \in {"WaitingForData", "ReceivingReasoning"} ->
            DeltaWhileWaiting(delta)
      [] state.tag = "ReceivingContent" -> DeltaWhileReceivingContent(delta)
      [] state.tag = "WaitingForDone" -> DeltaWhileWaitingForDone(delta)
      [] state.tag = "WaitingForEndOfStream" ->
            DeltaWhileWaitingForEndOfStream(delta)

\* Some(Ok(event)) with a payload other than the sentinel
StreamData(chunk) ==
    /\ Read(Event("Data", ParseStreamChunk(chunk)))
    /\ CASE ParseStreamChunk(chunk).tag = "Delta" ->
                OnDelta(ParseStreamChunk(chunk))
         [] ParseStreamChunk(chunk).tag = "Ignore" -> DataIgnore
         [] ParseStreamChunk(chunk).tag = "Err" ->
                DataError(ParseStreamChunk(chunk))

\* is_terminated matching the state after the sentinel as well.
IsTerminatedAfterDone == state.tag \in {"WaitingForEndOfStream", "Terminated"}

\* FusedStream::is_terminated
IsTerminated == state.tag = "Terminated"

\* The limits of the clients that stream.
StreamLimits == {<<None, None>>, <<Some(2), None>>, <<None, Some(3)>>}

\* A client whose context holds what earlier requests left, and the stream
\* ChatClient::stream_completion returns for a new request.
Init ==
    /\ system_message = Some(<<"to">>)
    /\ \E limits \in StreamLimits :
          /\ min_history_tokens = limits[1]
          /\ max_history_tokens = limits[2]
    /\ pushed \in {<<>>, <<Turn(<<"hi">>, <<"be">>)>>}
    /\ conversation = KeepRecent(system_message, min_history_tokens,
                                 max_history_tokens, pushed)
    /\ before = [conversation |-> conversation, pushed |-> pushed]
    /\ last = [ok |-> TRUE, what |-> "none"]
    /\ NewStream(<<"do">>)

Next ==
    \/ PollTerminated
    \/ PollEnter
    \/ StreamPending
    \/ StreamDone
    \/ StreamError
    \/ StreamEnd
    \/ \E chunk \in Chunks : StreamData(chunk)

Spec == Init /\ [][Next]_vars

----------------------------------------------------------------------------
(* A finite underlying stream and a caller that keeps polling. *)

\* One client with a minimum, before its first turn, and its stream.
LiveInit ==
    /\ system_message = Some(<<"to">>)
    /\ min_history_tokens = Some(2)
    /\ max_history_tokens = None
    /\ pushed = <<>>
    /\ conversation = <<>>
    /\ before = [conversation |-> <<>>, pushed |-> <<>>]
    /\ last = [ok |-> TRUE, what |-> "none"]
    /\ NewStream(<<"do">>)

\* The underlying stream delivers a payload: only while it has more than
\* its last event left, which is its end or an error.
StreamPayload ==
    /\ Len(consumed) < MaxEvents - 1
    /\ \/ StreamDone
       \/ \E chunk \in Chunks : StreamData(chunk)

\* The underlying stream ends or fails.
StreamCloses == StreamError \/ StreamEnd

LiveNext ==
    \/ PollTerminated
    \/ PollEnter
    \/ StreamPending
    \/ StreamPayload
    \/ StreamCloses

\* The caller polls again whenever the stream has returned (weak fairness
\* of the two ways poll_next is entered), and the underlying stream, polled
\* again and again, does not stay pending for ever (strong fairness of its
\* events, since each Pending in between disables them).
LiveSpec ==
    /\ LiveInit
    /\ [][LiveNext]_vars
    /\ WF_vars(PollEnter)
    /\ WF_vars(PollTerminated)
    /\ SF_vars(StreamPayload \/ StreamCloses)

----------------------------------------------------------------------------
(* The window of the context. *)

\* The token cost of the k newest turns of a log.
RECURSIVE NewestTokens(_, _)
NewestTokens(log, k) ==
    IF k = 0 THEN 0
    ELSE TransactionTokens(log[Len(log) - k + 1]) + NewestTokens(log, k - 1)

\* The k-th newest turn of the log passes the test of the minimum (the
\* total before it is below min) and of the maximum (the total with it is
\* at most max); an unset limit is unbounded.
PassesWindow(log, k) ==
    /\ IsSome(min_history_tokens) =>
          SystemTokens(system_message) + NewestTokens(log, k - 1)
              < min_history_tokens[1]
    /\ IsSome(max_history_tokens) =>
          SystemTokens(system_message) + NewestTokens(log, k)
              <= max_history_tokens[1]

\* The length of the longest suffix of the log all of whose turns pass.
WindowSize(log) ==
    CHOOSE k \in 0..Len(log) :
        /\ \A j \in 1..k : PassesWindow(log, j)
        /\ k < Len(log) => ~PassesWindow(log, k + 1)

Suffix(log, k) == SubSeq(log, Len(log) - k + 1, Len(log))

----------------------------------------------------------------------------
(* The stream and the context: what the histories say. *)

\* The turns the stream has pushed since it was created.
StreamPushes == SubSeq(pushed, Len(before.pushed) + 1, Len(pushed))

\* The context is what one push of (request, response) makes of the context
\* the stream was created on.
PushedOnce(response) ==
    /\ StreamPushes = <<Turn(request, response)>>
    /\ conversation = Push(system_message, min_history_tokens,
                           max_history_tokens, before.conversation,
                           request, response)

\* The context is the one the stream was created on.
NotPushed ==
    /\ StreamPushes = <<>>
    /\ conversation = before.conversation

\* The concatenation of the Content deltas among items[1..n].
RECURSIVE ContentOf(_, _)
ContentOf(items, n) ==
    IF n = 0 THEN <<>>
    ELSE ContentOf(items, n - 1)
         \o (IF items[n].kind = "Ok" /\ items[n].type = "Content"
             THEN items[n].text ELSE <<>>)

YieldedContent == ContentOf(yielded, Len(yielded))

IsDelta(e, type) ==
    e.ev = "Data" /\ e.parsed.tag = "Delta" /\ e.parsed.type = type

\* The step reads an event from the underlying stream.
Reads == consumed' # consumed

ReadEvent == consumed'[Len(consumed')]

\* The step returns an item to the caller.
Yields(item) == yielded' = Append(yielded, item)

YieldsNothing == yielded' = yielded

\* The step flushes the partial response of the state it leaves, if there
\* is any, and mutates the context in no other way.
Flushes ==
    IF state.tag = "ReceivingContent" /\ state.partial_response # <<>>
    THEN /\ pushed' = Append(pushed, Turn(request, state.partial_response))
         /\ conversation' = Push(system_message, min_history_tokens,
                                 max_history_tokens, conversation,
                                 request, state.partial_response)
    ELSE /\ pushed' = pushed
         /\ conversation' = conversation

ContextUnchanged == pushed' = pushed /\ conversation' = conversation

----------------------------------------------------------------------------
(* C2 *)

\* C2 as stated: a stream consumed to termination has pushed exactly one
\* turn, whichever way it completed.
C2_ExactlyOnePush ==
    state.tag = "Terminated" => Len(StreamPushes) = 1

\* C2, amended: a stream never pushes more than one turn, and a stream
\* consumed to termination has pushed exactly one turn if the Content
\* deltas it yielded concatenate to a non-empty response and none
\* otherwise, whichever way it completed.
C2_AtMostOnePush ==
    /\ Len(StreamPushes) <= 1
    /\ state.tag = "Terminated" =>
          IF YieldedContent # <<>>
          THEN PushedOnce(YieldedContent)
          ELSE NotPushed

\* A stream that pushed its turn at the usage record, passed the sentinel
\* and was terminated by a transport error.
C2_Witness ==
    /\ state.tag = "Terminated"
    /\ Len(StreamPushes) = 1
    /\ \E i \in 1..Len(consumed) : consumed[i].ev = "Done"
    /\ \E i \in 1..Len(consumed) : IsDelta(consumed[i], "Usage")
    /\ consumed[Len(consumed)].ev = "Err"

----------------------------------------------------------------------------
(* C3 *)

\* The concatenation of the Content deltas among events[1..n].
RECURSIVE EventContent(_, _)
EventContent(events, n) ==
    IF n = 0 THEN <<>>
    ELSE EventContent(events, n - 1)
         \o (IF IsDelta(events[n], "Content")
             THEN events[n].parsed.text ELSE <<>>)

\* Zero or more Reasoning deltas, one or more Content deltas with a
\* non-empty concatenation, one Usage, the sentinel, the end.
WellFormed(events) ==
    LET n == Len(events) IN
    /\ n >= 4
    /\ events[n].ev = "End"
    /\ events[n - 1].ev = "Done"
    /\ IsDelta(events[n - 2], "Usage")
    /\ \E k \in 0..(n - 4) :
          /\ \A i \in 1..k : IsDelta(events[i], "Reasoning")
          /\ \A i \in (k + 1)..(n - 3) : IsDelta(events[i], "Content")
    /\ EventContent(events, n) # <<>>

\* C3: once a well-formed event sequence is consumed, the items yielded are
\* the deltas as Ok in arrival order, nothing for the sentinel, then End
\* only (no Err), and the context has been pushed exactly one turn: the
\* stream's request with the concatenation of the Content fragments.
C3_WellFormedStream ==
    WellFormed(consumed) =>
        LET n == Len(consumed) IN
        /\ Len(yielded) >= n - 1
        /\ \A i \in 1..(n - 2) :
              yielded[i] = Item("Ok", consumed[i].parsed.type,
                                consumed[i].parsed.text)
        /\ \A i \in (n - 1)..Len(yielded) : yielded[i] = ItemEnd
        /\ state.tag = "Terminated"
        /\ PushedOnce(EventContent(consumed, n))

\* "Hi" + " there" = "Hi there", with a turn already in the context.
C3_Witness ==
    /\ WellFormed(consumed)
    /\ Len(consumed) = 5
    /\ StreamPushes = <<Turn(<<"do">>, <<"Hi", " there">>)>>
    /\ Len(conversation) = 2
    /\ Len(yielded) = 4

----------------------------------------------------------------------------
(* C4 *)

IsErrorEvent(e) ==
    \/ e.ev = "Err"
    \/ e.ev = "Data" /\ e.parsed.tag = "Err"
    \/ IsDelta(e, "Reasoning")

YieldsErr ==
    /\ Len(yielded') = Len(yielded) + 1
    /\ yielded'[Len(yielded')].kind = "Err"

\* C4: every step that takes an error transition (a Reasoning delta, a
\* payload that fails to decode, a refusal, a transport error) from
\* ReceivingContent with a non-empty partial response pushes
\* (request, partial) into the context, leaves the state Terminated and
\* returns the error.  The events [Content("Hi"), Reasoning("hm")] yield
\* Ok(Content("Hi")) and Err("reasoning after content") and push one turn
\* with response "Hi".
C4_FlushOnError ==
    /\ [][(/\ Reads
           /\ state.tag = "ReceivingContent"
           /\ state.partial_response # <<>>
           /\ IsErrorEvent(ReadEvent))
          => (/\ pushed' = Append(pushed,
                                  Turn(request, state.partial_response))
              /\ conversation' = Push(system_message, min_history_tokens,
                                      max_history_tokens, conversation,
                                      request, state.partial_response)
              /\ state' = St("Terminated")
              /\ YieldsErr)]_vars
    /\ [](consumed = <<Event("Data", Parsed("Delta", "Content", <<"Hi">>)),
                       Event("Data", Parsed("Delta", "Reasoning", <<"hm">>))>>
          => /\ Len(yielded) >= 2
             /\ yielded[1] = Item("Ok", "Content", <<"Hi">>)
             /\ yielded[2] = Item("Err", "reasoning after content", <<>>)
             /\ \A i \in 3..Len(yielded) : yielded[i] = ItemEnd
             /\ PushedOnce(<<"Hi">>))

\* A refusal after two fragments: the turn is in the context, the error is
\* the last item.
C4_Witness ==
    /\ Len(consumed) = 3
    /\ consumed[3].parsed.type = "Refusal"
    /\ yielded[Len(yielded)].kind = "Err"
    /\ StreamPushes = <<Turn(<<"do">>, <<"Hi", " there">>)>>
    /\ state.tag = "Terminated"

----------------------------------------------------------------------------
(* C5 *)

\* C5: a delta read in ReceivingContent{partial}: Reasoning returns
\* Err("reasoning after content"); Content appends its text to partial,
\* stays in ReceivingContent and returns Ok(Content); Usage finalizes
\* partial into the context (a push of (request, partial) unless partial
\* is empty), moves to WaitingForDone and returns Ok(Usage).
C5_ReceivingContentRow ==
    [][(/\ Reads
        /\ state.tag = "ReceivingContent"
        /\ ReadEvent.ev = "Data"
        /\ ReadEvent.parsed.tag = "Delta")
       => CASE ReadEvent.parsed.type = "Reasoning" ->
                  Yields(Item("Err", "reasoning after content", <<>>))
            [] ReadEvent.parsed.type = "Content" ->
                  /\ state' = ReceivingContent(state.partial_response
                                               \o ReadEvent.parsed.text)
                  /\ Yields(Item("Ok", "Content", ReadEvent.parsed.text))
            [] ReadEvent.parsed.type = "Usage" ->
                  /\ Flushes
                  /\ state' = St("WaitingForDone")
                  /\ Yields(Item("Ok", "Usage", <<>>))]_vars

\* Two fragments appended, then the usage record: the turn is pushed and
\* the stream waits for the sentinel.
C5_Witness ==
    /\ Len(consumed) = 3
    /\ IsDelta(consumed[3], "Usage")
    /\ state.tag = "WaitingForDone"
    /\ Len(yielded) = 3
    /\ yielded[3] = Item("Ok", "Usage", <<>>)
    /\ StreamPushes = <<Turn(<<"do">>, <<" there", "Hi">>)>>

----------------------------------------------------------------------------
(* C6 *)

\* C6: a delta read in WaitingForDone returns Err("reasoning after usage"),
\* Err("content after usage") or Err("duplicate usage") by its type, returns
\* no Ok item, leaves the context as it was and the state Terminated.
C6_WaitingForDoneRow ==
    [][(/\ Reads
        /\ state.tag = "WaitingForDone"
        /\ ReadEvent.ev = "Data"
        /\ ReadEvent.parsed.tag = "Delta")
       => /\ Yields(Item("Err",
                         CASE ReadEvent.parsed.type = "Reasoning" ->
                                  "reasoning after usage"
                           [] ReadEvent.parsed.type = "Content" ->
                                  "content after usage"
                           [] ReadEvent.parsed.type = "Usage" ->
                                  "duplicate usage",
                         <<>>))
          /\ ContextUnchanged
          /\ state' = St("Terminated")]_vars

\* Content after the usage record.
C6_Witness ==
    /\ Len(consumed) >= 2
    /\ IsDelta(consumed[Len(consumed) - 1], "Usage")
    /\ IsDelta(consumed[Len(consumed)], "Content")
    /\ yielded[Len(yielded)] = Item("Err", "content after usage", <<>>)
    /\ state.tag = "Terminated"

----------------------------------------------------------------------------
(* C7 *)

\* C7: a delta read in WaitingForData or ReceivingReasoning is returned as
\* Ok and does not touch the context; Reasoning leads to ReceivingReasoning,
\* Content to ReceivingContent with exactly its text as partial, Usage to
\* WaitingForDone.
C7_WaitingRow ==
    [][(/\ Reads
        /\ state.tag \in {"WaitingForData", "ReceivingReasoning"}
        /\ ReadEvent.ev = "Data"
        /\ ReadEvent.parsed.tag = "Delta")
       => /\ Yields(Item("Ok", ReadEvent.parsed.type, ReadEvent.parsed.text))
          /\ ContextUnchanged
          /\ state' = CASE ReadEvent.parsed.type = "Reasoning" ->
                               St("ReceivingReasoning")
                        [] ReadEvent.parsed.type = "Content" ->
                               ReceivingContent(ReadEvent.parsed.text)
                        [] ReadEvent.parsed.type = "Usage" ->
                               St("WaitingForDone")]_vars

\* Reasoning twice, then the first fragment.
C7_Witness ==
    /\ Len(consumed) = 3
    /\ IsDelta(consumed[1], "Reasoning")
    /\ IsDelta(consumed[2], "Reasoning")
    /\ state = ReceivingContent(<<"Hi">>)
    /\ Len(yielded) = 3
    /\ NotPushed

----------------------------------------------------------------------------
(* C8 *)

\* C8: reading the sentinel (in any state a read happens in, that is any
\* non-terminated state) decodes nothing, flushes a non-empty partial
\* response into the context, leaves the state WaitingForEndOfStream,
\* returns no item and stays in the loop that reads the underlying stream.
C8_Sentinel ==
    [][(Reads /\ ReadEvent.ev = "Done")
       => /\ state.tag # "Terminated"
          /\ ReadEvent.parsed = NoPayload
          /\ Flushes
          /\ state' = St("WaitingForEndOfStream")
          /\ YieldsNothing
          /\ pc' = "loop"]_vars

\* The sentinel right after a fragment: flushed, nothing yielded for it, the
\* poll still in its loop.
C8_Witness ==
    /\ Len(consumed) = 2
    /\ IsDelta(consumed[1], "Content")
    /\ consumed[2].ev = "Done"
    /\ state.tag = "WaitingForEndOfStream"
    /\ Len(StreamPushes) = 1
    /\ Len(yielded) = 1
    /\ pc = "loop"

----------------------------------------------------------------------------
(* C9 *)

----------------------------------------------------------------------------
(* C10 *)

\* C10: the items returned hold at most one Err; every item returned after
\* it is end-of-sequence, and the stream is Terminated once it is returned.
C10_ErrIsTerminal ==
    \A i \in 1..Len(yielded) :
        yielded[i].kind = "Err" =>
            /\ state.tag = "Terminated"
            /\ \A j \in (i + 1)..Len(yielded) : yielded[j] = ItemEnd

\* An Err after an Ok item, and a later poll answered by end-of-sequence.
C10_Witness ==
    /\ Len(yielded) = 3
    /\ yielded[1].kind = "Ok"
    /\ yielded[2].kind = "Err"
    /\ yielded[3] = ItemEnd

----------------------------------------------------------------------------
(* C11 *)

\* C11: no step leaves Terminated: a step taken in it changes neither the
\* state nor the context, reads no event from the underlying stream, and
\* returns nothing but end-of-sequence.
C11_TerminatedAbsorbing ==
    [][state.tag = "Terminated"
       => /\ state' = state
          /\ consumed' = consumed
          /\ ContextUnchanged
          /\ yielded' = yielded \/ Yields(ItemEnd)]_vars

\* A stream terminated by a duplicate usage record and polled once more.
C11_Witness ==
    /\ state.tag = "Terminated"
    /\ Len(yielded) >= 2
    /\ yielded[Len(yielded) - 1] = Item("Err", "duplicate usage", <<>>)
    /\ yielded[Len(yielded)] = ItemEnd
    /\ pc = "idle"

----------------------------------------------------------------------------
(* The totals of the context. *)

\* system tokens + the costs of all retained turns
TotalTokens ==
    SystemTokens(system_message) + NewestTokens(conversation, Len(conversation))

\* The newest turn pushed is the newest turn retained.
NewestRetained ==
    /\ conversation # <<>>
    /\ conversation[Len(conversation)] = pushed[Len(pushed)]

MinOnly == IsSome(min_history_tokens) /\ max_history_tokens = None

MaxOnly == min_history_tokens = None /\ IsSome(max_history_tokens)

\* system tokens + the cost of the newest turn pushed exceed max_tokens
Oversized ==
    /\ IsSome(max_history_tokens)
    /\ pushed # <<>>
    /\ SystemTokens(system_message) + NewestTokens(pushed, 1)
          > max_history_tokens[1]

----------------------------------------------------------------------------
(* C12 *)

\* C12 as stated: with max_tokens set, after a push whose turn alone brings
\* the total above max_tokens that turn is still retained, alone; no push
\* discards the turn it appended, so no push leaves the context empty.
C12_OversizedKept ==
    pushed # <<>> =>
        /\ NewestRetained
        /\ Oversized => Len(conversation) = 1

\* C12, amended: with max_tokens set, after a push whose turn alone brings
\* the total above max_tokens that turn is discarded with every older one:
\* the context is left with zero turns.
C12_OversizedDropped ==
    Oversized => conversation = <<>>

\* Two turns retained, then a third of 3 tokens against max_tokens = 3 and
\* a system message of 1 token: the context is empty.
C12_Witness ==
    /\ Len(pushed) = 3
    /\ Oversized
    /\ min_history_tokens = None
    /\ max_history_tokens = Some(3)
    /\ SystemTokens(system_message) = 1
    /\ NewestTokens(pushed, 1) = 3
    /\ conversation = <<>>

----------------------------------------------------------------------------
(* C13 *)

\* C13: with min_history_tokens set and max_history_tokens unset, after
\* every push the context retains at least the pair just pushed.
C13_LatestRoundKept ==
    (MinOnly /\ pushed # <<>>) => NewestRetained

----------------------------------------------------------------------------
(* C14 *)

\* C14: with max_history_tokens set, after every push the system tokens plus
\* the costs of the retained turns are at most max_history_tokens.
C14_HardMaximum ==
    (IsSome(max_history_tokens) /\ pushed # <<>>) =>
        TotalTokens <= max_history_tokens[1]

----------------------------------------------------------------------------
(* C15 *)

\* C15: on a context without limits the k-th push leaves exactly k turns:
\* the retained turns are all the turns pushed, in order and unchanged.
C15_NoThresholds ==
    ~HasTokenizer(min_history_tokens, max_history_tokens) =>
        /\ Len(conversation) = Len(pushed)
        /\ conversation = pushed

\* Three pushes without limits, the last of 3 tokens.
C15_Witness ==
    /\ ~HasTokenizer(min_history_tokens, max_history_tokens)
    /\ Len(pushed) = 3
    /\ Len(conversation) = 3
    /\ NewestTokens(pushed, 1) = 3
    /\ system_message # None

----------------------------------------------------------------------------
(* C16 *)

\* C16: with min_tokens set and no max, the total is at least min_tokens
\* or every turn ever pushed is still retained.
C16_MinimumOnly ==
    MinOnly => \/ TotalTokens >= min_history_tokens[1]
               \/ conversation = pushed

\* A window trimmed to two of three turns, at the minimum or above it.
C16_Witness ==
    /\ MinOnly
    /\ Len(pushed) = 3
    /\ Len(conversation) = 2
    /\ TotalTokens >= min_history_tokens[1]
    /\ SystemTokens(system_message) < min_history_tokens[1]

----------------------------------------------------------------------------
(* C17 *)

\* C17: with max_tokens set, a window that holds the newest turn and at
\* least one older turn totals at most max_tokens, and so does the total up
\* to each older turn it includes: no older turn is included whose
\* inclusion brings the cumulative total above max_tokens.
C17_MaximumMultiTurn ==
    (IsSome(max_history_tokens) /\ Len(conversation) >= 2) =>
        /\ NewestRetained
        /\ TotalTokens <= max_history_tokens[1]
        /\ \A k \in 2..Len(conversation) :
              SystemTokens(system_message) + NewestTokens(pushed, k)
                  <= max_history_tokens[1]

\* Two of three turns retained, exactly at the maximum.
C17_Witness ==
    /\ MaxOnly
    /\ Len(pushed) = 3
    /\ Len(conversation) = 2
    /\ TotalTokens = max_history_tokens[1]
    /\ SystemTokens(system_message) = 1

----------------------------------------------------------------------------
(* C18, C19, C20: the boundaries of the window. *)

\* Every turn pushed costs n tokens.
AllCost(n) == \A i \in 1..Len(pushed) : TransactionTokens(pushed[i]) = n

\* The smaller of two numbers.
Least(a, b) == IF a < b THEN a ELSE b

\* system tokens + the costs of the k newest turns pushed
TotalOfNewest(k) == SystemTokens(system_message) + NewestTokens(pushed, k)

\* The k-th newest turn pushed is retained.
Retained(k) == k <= Len(conversation)

\* C18: with a system message of 5 tokens, min_tokens = 20, no max and
\* turns of 10 tokens, 1, 2, 2, 2, ... turns are retained after the 1st,
\* 2nd, 3rd and every further push; in general with min only, an older turn
\* is retained exactly when the system tokens plus the costs of all newer
\* turns are below min_tokens.
C18_MinimumScenario ==
    /\ (/\ SystemTokens(system_message) = 5
        /\ min_history_tokens = Some(20)
        /\ max_history_tokens = None
        /\ AllCost(10)) =>
            /\ Len(conversation) = Least(Len(pushed), 2)
            /\ conversation = Suffix(pushed, Least(Len(pushed), 2))
    /\ MinOnly =>
          \A k \in 2..Len(pushed) :
              Retained(k) <=> TotalOfNewest(k - 1) < min_history_tokens[1]

\* The test min_history_tokens after its third push, and one push more.
C18_Witness ==
    /\ system_message = Some(TestSystem)
    /\ min_history_tokens = Some(20)
    /\ max_history_tokens = None
    /\ AllCost(10)
    /\ Len(pushed) = 4
    /\ Len(conversation) = 2

\* C19: with min only, when the system tokens plus the costs of the newer
\* turns equal min_tokens exactly, the next older turn is discarded: a turn
\* is retained only if the total before it is strictly below min_tokens;
\* without a system message, min_tokens = 20 and turns of 10 tokens,
\* 1, 2, 2 turns are retained after pushes 1, 2, 3.
C19_MinimumStrict ==
    /\ MinOnly =>
          \A k \in 1..Len(pushed) :
              /\ TotalOfNewest(k - 1) = min_history_tokens[1] => ~Retained(k)
              /\ Retained(k) => TotalOfNewest(k - 1) < min_history_tokens[1]
    /\ (/\ system_message = None
        /\ min_history_tokens = Some(20)
        /\ max_history_tokens = None
        /\ AllCost(10)
        /\ Len(pushed) <= 3) =>
            Len(conversation) = Least(Len(pushed), 2)

\* The test min_history_tokens_exact after its third push: the two newest
\* turns total 20 and the oldest is discarded.
C19_Witness ==
    /\ system_message = None
    /\ min_history_tokens = Some(20)
    /\ max_history_tokens = None
    /\ AllCost(10)
    /\ Len(pushed) = 3
    /\ TotalOfNewest(2) = 20
    /\ Len(conversation) = 2

\* C20: with max only, a turn whose inclusion brings the total of the system
\* message, that turn and all newer turns to exactly max_tokens is retained,
\* and the first turn that brings it above max_tokens is discarded with
\* everything older; without a system message, max_tokens = 30 and turns of
\* 10 tokens, 1, 2, 3, 3 turns are retained after pushes 1..4, and with a
\* system message of 5 tokens 1, 2, 2.
C20_MaximumInclusive ==
    /\ MaxOnly =>
          \A k \in 1..Len(pushed) :
              /\ TotalOfNewest(k) = max_history_tokens[1] => Retained(k)
              /\ (/\ TotalOfNewest(k) > max_history_tokens[1]
                  /\ TotalOfNewest(k - 1) <= max_history_tokens[1]) =>
                      Len(conversation) = k - 1
    /\ (/\ system_message = None
        /\ min_history_tokens = None
        /\ max_history_tokens = Some(30)
        /\ AllCost(10)
        /\ Len(pushed) <= 4) =>
            Len(conversation) = Least(Len(pushed), 3)
    /\ (/\ SystemTokens(system_message) = 5
        /\ min_history_tokens = None
        /\ max_history_tokens = Some(30)
        /\ AllCost(10)
        /\ Len(pushed) <= 3) =>
            Len(conversation) = Least(Len(pushed), 2)

\* The test max_history_tokens_exact after its fourth push: three turns
\* total 30 and are retained, the fourth is discarded.
C20_Witness ==
    /\ system_message = None
    /\ min_history_tokens = None
    /\ max_history_tokens = Some(30)
    /\ AllCost(10)
    /\ Len(pushed) = 4
    /\ TotalTokens = 30
    /\ Len(conversation) = 3

----------------------------------------------------------------------------
(* C21, C22: with_request. *)

\* The call of with_request whose result `last` holds.
Called == last.what = "with_request"

\* 1 if a system message is set, else 0
SystemOffset == IF IsSome(system_message) THEN 1 ELSE 0

\* C21: with_request(R) yields the system message first if one is set, then
\* for every retained turn, oldest first, its user message followed by its
\* assistant message, then User(R) last: 2 * turns + (1 if a system message
\* is set) + 1 messages; on an empty context with system message S it is
\* exactly [System(S), User(R)].
C21_WithRequestOrder ==
    Called =>
        LET messages == last.messages
            n == Len(conversation)
        IN  /\ Len(messages) = 2 * n + SystemOffset + 1
            /\ IsSome(system_message) =>
                  messages[1] = SystemMessage(system_message[1])
            /\ \A i \in 1..n :
                  /\ messages[SystemOffset + 2 * i - 1]
                        = UserMessage(conversation[i].request)
                  /\ messages[SystemOffset + 2 * i]
                        = AssistantMessage(conversation[i].response)
            /\ messages[Len(messages)] = UserMessage(last.request)
            /\ (n = 0 /\ IsSome(system_message)) =>
                  messages = <<SystemMessage(system_message[1]),
                               UserMessage(last.request)>>

\* with_request on a system message and two retained turns that differ.
C21_Witness ==
    /\ Called
    /\ IsSome(system_message)
    /\ Len(conversation) = 2
    /\ conversation[1] # conversation[2]
    /\ Len(last.messages) = 6
    /\ last.request = <<"do">>

\* C22: a call of with_request, with any request and however many calls went
\* before it, leaves the system message, the retained turns and the limits
\* unchanged, and a call that follows a call with the same request yields
\* the same messages.
C22_WithRequestPure ==
    [][last'.what = "with_request" =>
          /\ UNCHANGED <<system_message, min_history_tokens,
                         max_history_tokens, conversation, pushed>>
          /\ (Called /\ last.request = last'.request) =>
                last'.messages = last.messages]_vars

\* The second of two calls with the same request, on retained turns.
C22_Witness ==
    /\ Called
    /\ last.calls = 2
    /\ conversation # <<>>
    /\ HasTokenizer(min_history_tokens, max_history_tokens)

----------------------------------------------------------------------------
(* C23 *)

\* The turns pushed and no longer retained.
Discarded == Len(pushed) - Len(conversation)

\* C23: after every push the retained turns are a contiguous suffix of the
\* sequence of all turns ever pushed, in order and unmodified: every turn
\* older than a retained one that is not in the suffix is discarded, and
\* the discarded prefix never shrinks, so a discarded turn never reappears.
C23_PrefixDiscarded ==
    [][/\ Len(conversation') <= Len(pushed')
       /\ conversation' = Suffix(pushed', Len(conversation'))
       /\ Len(pushed') - Len(conversation') >= Discarded]_vars

\* Three different turns pushed, the two oldest discarded.
C23_Witness ==
    /\ Len(pushed) = 3
    /\ pushed[1] # pushed[2]
    /\ pushed[2] # pushed[3]
    /\ Discarded = 2
    /\ conversation = <<pushed[3]>>

----------------------------------------------------------------------------
(* C24 *)

\* C24: while the state is WaitingForData, ReceivingReasoning or
\* ReceivingContent the context is the one the stream was created on, so a
\* stream abandoned there (CompletionStream runs no code when dropped) has
\* written nothing: the buffered partial response is not in the context.
C24_Cancellation ==
    state.tag \in {"WaitingForData", "ReceivingReasoning", "ReceivingContent"}
        => NotPushed

\* Between two polls, "Hi there" buffered, on a context holding a turn.
C24_Witness ==
    /\ state = ReceivingContent(<<"Hi", " there">>)
    /\ pc = "idle"
    /\ before.conversation # <<>>
    /\ conversation = before.conversation
    /\ Len(yielded) = 2

----------------------------------------------------------------------------
(* C25 *)

\* The sentinel was read before the i-th event.
DoneBefore(i) == \E j \in 1..(i - 1) : consumed[j].ev = "Done"

\* C25: an error of the underlying stream read after the sentinel is not
\* propagated: no Err item is yielded, and the stream ends with a clean
\* end-of-sequence.
C25_ErrorAfterDoneDiscarded ==
    \A i \in 1..Len(consumed) :
        (consumed[i].ev = "Err" /\ DoneBefore(i)) =>
            /\ \A k \in 1..Len(yielded) : yielded[k].kind # "Err"
            /\ yielded # <<>>
            /\ yielded[Len(yielded)] = ItemEnd
            /\ state.tag = "Terminated"

----------------------------------------------------------------------------
(* C26 *)

\* The step pushes exactly one turn (req, resp) onto the context.
PushesTurn(req, resp) ==
    /\ pushed' = Append(pushed, Turn(req, resp))
    /\ conversation' = Push(system_message, min_history_tokens,
                            max_history_tokens, conversation, req, resp)

\* C26: request_completion extends the context with exactly one turn
\* (request, response) if and only if it returns Ok; when it returns an
\* error (transport failure or API rejection, no choices, invalid message,
\* missing content, refusal) the context is unchanged and all earlier turns
\* are still there for later requests.
C26_PushIffOk ==
    [][/\ last'.ok =>
             \E req \in Requests, resp \in Responses : PushesTurn(req, resp)
       /\ ~last'.ok => ContextUnchanged
       /\ UNCHANGED <<system_message, min_history_tokens,
                      max_history_tokens>>]_vars

\* A refusal after two completions: both turns are still retained.
C26_Witness ==
    /\ last = [ok |-> FALSE, what |-> "Refusal"]
    /\ Len(pushed) = 2
    /\ conversation = pushed
    /\ HasTokenizer(min_history_tokens, max_history_tokens)

----------------------------------------------------------------------------
(* C27 *)

\* The i-th item yielded is Ok(delta) of the given type.
IsOk(i, type) == yielded[i].kind = "Ok" /\ yielded[i].type = type

\* C27: among the items yielded, no Ok(Reasoning) comes after an
\* Ok(Content), no Ok item of any kind comes after an Ok(Usage), and there
\* is at most one Ok(Usage).
C27_DeltaOrder ==
    \A i, j \in 1..Len(yielded) :
        i < j =>
            /\ ~(IsOk(i, "Content") /\ IsOk(j, "Reasoning"))
            /\ ~(IsOk(i, "Usage") /\ yielded[j].kind = "Ok")

\* Reasoning, content and usage yielded in order, then a second usage
\* record answered with an error.
C27_Witness ==
    /\ Len(yielded) >= 4
    /\ IsOk(1, "Reasoning")
    /\ IsOk(2, "Content")
    /\ IsOk(3, "Usage")
    /\ yielded[4] = Item("Err", "duplicate usage", <<>>)

----------------------------------------------------------------------------
(* C28 *)

\* The place of a state in the order WaitingForData < ReceivingReasoning
\* < ReceivingContent < WaitingForDone < WaitingForEndOfStream < Terminated.
Rank(tag) ==
    CASE tag = "WaitingForData" -> 0
      [] tag = "ReceivingReasoning" -> 1
      [] tag = "ReceivingContent" -> 2
      [] tag = "WaitingForDone" -> 3
      [] tag = "WaitingForEndOfStream" -> 4
      [] tag = "Terminated" -> 5

\* C28: no step moves the state to an earlier one in the order
\* WaitingForData < ReceivingReasoning < ReceivingContent < WaitingForDone
\* < WaitingForEndOfStream < Terminated; ReceivingContent and WaitingForData,
\* once left, are not entered again.
C28_ForwardOnly ==
    [][Rank(state'.tag) >= Rank(state.tag)]_vars

\* A run through all six states: reasoning, content, usage, the sentinel
\* and the end of the underlying stream.
C28_Witness ==
    /\ Len(consumed) = 5
    /\ IsDelta(consumed[1], "Reasoning")
    /\ IsDelta(consumed[2], "Content")
    /\ IsDelta(consumed[3], "Usage")
    /\ consumed[4].ev = "Done"
    /\ consumed[5].ev = "End"
    /\ state.tag = "Terminated"

----------------------------------------------------------------------------
(* C29 *)

\* C29: whatever the underlying stream sends (repeated sentinels, deltas or
\* errors after the sentinel, errors after usage, the end after a flush),
\* one stream calls extend_context at most once: once it has pushed, the
\* state is past ReceivingContent, where nothing is left to flush.
C29_AtMostOncePerStream ==
    /\ Len(StreamPushes) \in {0, 1}
    /\ StreamPushes # <<>> =>
          /\ state.tag \in {"WaitingForDone", "WaitingForEndOfStream",
                            "Terminated"}
          /\ state.partial_response = <<>>

\* Content flushed by the sentinel, then a second sentinel, a delta and the
\* end of the underlying stream: still one push.
C29_Witness ==
    /\ Len(consumed) = 4
    /\ IsDelta(consumed[1], "Content")
    /\ consumed[2].ev = "Done"
    /\ consumed[3].ev = "Done"
    /\ consumed[4].ev \in {"Err", "End", "Data"}
    /\ Len(StreamPushes) = 1
    /\ state.tag = "Terminated"

----------------------------------------------------------------------------
(* C30 *)

\* C30: the turn a stream has pushed holds the request the stream was
\* created with and, as response, the in-order concatenation of the texts
\* of all Ok(Content) items yielded, all of them yielded before the flush;
\* until the flush the buffered partial response is that concatenation.
C30_PushedResponse ==
    /\ StreamPushes # <<>> =>
          /\ StreamPushes[1].request = request
          /\ StreamPushes[1].response = YieldedContent
    /\ state.tag = "ReceivingContent" =>
          state.partial_response = YieldedContent

\* Reasoning, then "Hi", an empty fragment and " there", flushed by the
\* usage record.
C30_Witness ==
    /\ Len(yielded) = 5
    /\ IsOk(1, "Reasoning")
    /\ yielded[2] = Item("Ok", "Content", <<"Hi">>)
    /\ yielded[3] = Item("Ok", "Content", <<>>)
    /\ yielded[4] = Item("Ok", "Content", <<" there">>)
    /\ IsOk(5, "Usage")
    /\ StreamPushes = <<Turn(<<"do">>, <<"Hi", " there">>)>>
    /\ state.tag = "WaitingForDone"

----------------------------------------------------------------------------
(* C31 *)

\* The concatenation of all Content fragments received.
ReceivedContent == EventContent(consumed, Len(consumed))

\* C31: a stream never pushes a turn with an empty response, and while the
\* Content fragments received concatenate to nothing (or none was received)
\* the context is not mutated, however the stream ends: by usage, the
\* sentinel, an error or the end of the underlying stream.
C31_EmptyNotFlushed ==
    /\ \A i \in 1..Len(StreamPushes) : StreamPushes[i].response # <<>>
    /\ ReceivedContent = <<>> => NotPushed

\* Two empty Content fragments, usage, the sentinel and the end: the stream
\* has terminated and the context still holds its earlier turn only.
C31_Witness ==
    /\ Len(consumed) = 5
    /\ IsDelta(consumed[1], "Content")
    /\ IsDelta(consumed[2], "Content")
    /\ IsDelta(consumed[3], "Usage")
    /\ consumed[4].ev = "Done"
    /\ consumed[5].ev = "End"
    /\ ReceivedContent = <<>>
    /\ state.tag = "Terminated"
    /\ before.conversation # <<>>
    /\ conversation = before.conversation

----------------------------------------------------------------------------
(* C32 *)

\* `last` holds a payload that is valid JSON and what the decoder made of it.
Decoded == last.what = "parse_stream_chunk" /\ last.chunk.json_ok

\* C32: the decoder gives one outcome per payload, by a fixed precedence.
\* Without a choice: Usage if the payload carries usage, else the NoChoices
\* error.  With a choice: Reasoning if reasoning is present, else Content if
\* content is present, else the Refusal error if a refusal is present, else
\* Ignore if a finish reason is present, else the NoContent error; usage and
\* content beside a field of higher precedence are dropped.
C32_DecoderPrecedence ==
    Decoded =>
        LET c == last.chunk
            r == last.parsed
        IN  /\ (c.choices = 0 /\ c.usage) => r = Parsed("Delta", "Usage", <<>>)
            /\ (c.choices = 0 /\ ~c.usage) =>
                  r = Parsed("Err", "NoChoices", <<>>)
            /\ (c.choices > 0 /\ IsSome(c.reasoning)) =>
                  r = Parsed("Delta", "Reasoning", c.reasoning[1])
            /\ (c.choices > 0 /\ c.reasoning = None /\ IsSome(c.content)) =>
                  r = Parsed("Delta", "Content", c.content[1])
            /\ (/\ c.choices > 0
                /\ c.reasoning = None
                /\ c.content = None
                /\ IsSome(c.refusal)) =>
                  r = Parsed("Err", "Refusal", c.refusal[1])
            /\ (/\ c.choices > 0
                /\ c.reasoning = None
                /\ c.content = None
                /\ c.refusal = None) =>
                  r = IF c.finish_reason
                      THEN Parsed("Ignore", "None", <<>>)
                      ELSE Parsed("Err", "NoContent", <<>>)

\* A payload carrying reasoning, content, a refusal, a finish reason and
\* usage at once: only the reasoning comes out.
C32_Witness ==
    /\ Decoded
    /\ last.chunk.choices = 1
    /\ last.chunk.usage
    /\ last.chunk.reasoning = Some(<<"hm">>)
    /\ last.chunk.content = Some(<<"Hi">>)
    /\ IsSome(last.chunk.refusal)
    /\ last.chunk.finish_reason
    /\ last.parsed = Parsed("Delta", "Reasoning", <<"hm">>)

----------------------------------------------------------------------------
(* C33 *)

\* The step reads a payload the decoder ignores (a finish-reason marker).
ReadsIgnore ==
    /\ Reads
    /\ ReadEvent.ev = "Data"
    /\ ReadEvent.parsed.tag = "Ignore"

\* C33: an ignored payload read in any non-terminated state yields no item,
\* leaves the state with its buffered partial response and the context
\* unchanged, and the stream goes on to read the next event.
C33_IgnoreIsSkipped ==
    [][ReadsIgnore =>
          /\ state.tag # "Terminated"
          /\ state' = state
          /\ YieldsNothing
          /\ ContextUnchanged
          /\ pc' = "loop"]_vars

\* A finish-reason marker read with "Hi" buffered: still buffered, nothing
\* more yielded, the loop goes on.
C33_Witness ==
    /\ Len(consumed) = 2
    /\ IsDelta(consumed[1], "Content")
    /\ consumed[2].ev = "Data"
    /\ consumed[2].parsed.tag = "Ignore"
    /\ state = ReceivingContent(<<"Hi">>)
    /\ Len(yielded) = 1
    /\ pc = "loop"
    /\ StreamPushes = <<>>

----------------------------------------------------------------------------
(* C34 *)

\* The i-th event read is a payload that fails to decode or a refusal.
IsDecodeError(i) == consumed[i].ev = "Data" /\ consumed[i].parsed.tag = "Err"

\* C34: a payload that fails to decode (malformed JSON, no choices and no
\* usage, no content) or carries a refusal, read in any non-terminated
\* state (also after usage and after the sentinel), is the last event read:
\* it is surfaced as one Err item, the only one and the last item before
\* end-of-sequence, the state is Terminated, and the partial response that
\* was buffered has been flushed.
C34_DecodeErrorTerminates ==
    \A i \in 1..Len(consumed) :
        IsDecodeError(i) =>
            /\ i = Len(consumed)
            /\ state = St("Terminated")
            /\ \E k \in 1..Len(yielded) :
                  /\ yielded[k] = Item("Err", consumed[i].parsed.type,
                                       consumed[i].parsed.text)
                  /\ \A m \in 1..(k - 1) : yielded[m].kind = "Ok"
                  /\ \A m \in (k + 1)..Len(yielded) : yielded[m] = ItemEnd
            /\ IF YieldedContent # <<>>
               THEN PushedOnce(YieldedContent)
               ELSE NotPushed

\* A refusal read after the sentinel: an Err item although the response
\* was complete.
C34_Witness ==
    /\ Len(consumed) = 3
    /\ IsDelta(consumed[1], "Content")
    /\ consumed[2].ev = "Done"
    /\ IsDecodeError(3)
    /\ consumed[3].parsed.type = "Refusal"
    /\ yielded = <<Item("Ok", "Content", <<"Hi">>),
                   Item("Err", "Refusal", <<"no">>)>>
    /\ state.tag = "Terminated"

----------------------------------------------------------------------------
(* C35 *)

\* The i-th event read is a well-formed delta.
IsAnyDelta(i) == consumed[i].ev = "Data" /\ consumed[i].parsed.tag = "Delta"

\* The deltas among the first n events read.
DeltasIn(n) == {j \in 1..n : IsAnyDelta(j)}

\* The Ok items yielded.
OkItems == {k \in 1..Len(yielded) : yielded[k].kind = "Ok"}

\* C35: a Reasoning, Content or Usage delta read after the sentinel is
\* discarded: it is the last event read (the stream does not wait for the
\* underlying stream to end), only the deltas before it were yielded, no Err
\* is yielded, the stream returns end-of-sequence with the state Terminated,
\* and the context holds what the deltas before the sentinel put there.
C35_DeltaAfterDoneDiscarded ==
    \A i \in 1..Len(consumed) :
        (IsAnyDelta(i) /\ DoneBefore(i)) =>
            /\ i = Len(consumed)
            /\ state = St("Terminated")
            /\ pc = "idle"
            /\ Cardinality(OkItems) = Cardinality(DeltasIn(i - 1))
            /\ \A k \in 1..Len(yielded) : yielded[k].kind # "Err"
            /\ yielded # <<>>
            /\ yielded[Len(yielded)] = ItemEnd
            /\ YieldedContent = EventContent(consumed, i - 1)
            /\ IF YieldedContent # <<>>
               THEN PushedOnce(YieldedContent)
               ELSE NotPushed

\* "Hi", usage and the sentinel, then a late " there": end-of-sequence at
\* once, and the turn pushed holds "Hi" only.
C35_Witness ==
    /\ Len(consumed) = 4
    /\ IsDelta(consumed[1], "Content")
    /\ IsDelta(consumed[2], "Usage")
    /\ consumed[3].ev = "Done"
    /\ consumed[4] = Event("Data", Parsed("Delta", "Content", <<" there">>))
    /\ Len(yielded) = 3
    /\ yielded[3] = ItemEnd
    /\ StreamPushes = <<Turn(<<"do">>, <<"Hi">>)>>
    /\ state.tag = "Terminated"

----------------------------------------------------------------------------
(* C36 *)

\* The stream has terminated and the last thing it returned is
\* end-of-sequence.
Ended ==
    /\ state.tag = "Terminated"
    /\ yielded # <<>>
    /\ yielded[Len(yielded)] = ItemEnd

\* C36: on a finite underlying stream, with a caller that keeps polling, the
\* stream eventually is Terminated and has returned end-of-sequence; up to
\* its first end-of-sequence it yields at most one item per event read, the
\* end-of-sequence that follows an error being one item more.
C36_Termination ==
    /\ [](Len(yielded) - EndPolls(yielded) <= Len(consumed) + 1)
    /\ <>Ended

\* Terminated by a decode error before the underlying stream ended, then
\* polled again: end-of-sequence.
C36_Witness ==
    /\ Ended
    /\ Len(consumed) = 2
    /\ IsDecodeError(2)
    /\ Len(yielded) = 3
    /\ yielded[2].kind = "Err"

----------------------------------------------------------------------------
(* C37 *)

\* C37: for fixed limits and every sequence of pushes, the window left by
\* trimming after each push is the window keep_recent leaves when applied
\* once to the complete log of all turns pushed: no earlier trimming took
\* away a turn the rule retains later.
C37_IncrementalIsOneShot ==
    conversation = KeepRecent(system_message, min_history_tokens,
                              max_history_tokens, pushed)

\* Turns of 1, 3 and 1 tokens against a maximum of 3: the second push
\* discards the first turn, the third push the second.
C37_Witness ==
    /\ system_message = None
    /\ min_history_tokens = None
    /\ max_history_tokens = Some(3)
    /\ Len(pushed) = 3
    /\ TransactionTokens(pushed[1]) = 1
    /\ TransactionTokens(pushed[2]) = 3
    /\ TransactionTokens(pushed[3]) = 1
    /\ conversation = <<pushed[3]>>

----------------------------------------------------------------------------
(* C38 *)

\* C38: keep_recent applied again to the context a push has just trimmed
\* discards nothing: the retained window is a fixed point of the rule.
C38_KeepRecentIdempotent ==
    KeepRecent(system_message, min_history_tokens, max_history_tokens,
               conversation) = conversation

\* A window of two turns left by a push that discarded the oldest of three,
\* with both limits set.
C38_Witness ==
    /\ IsSome(min_history_tokens)
    /\ IsSome(max_history_tokens)
    /\ Len(pushed) = 3
    /\ Len(conversation) = 2
    /\ SystemTokens(system_message) > 0
    /\ KeepCount(system_message, min_history_tokens, max_history_tokens,
                 conversation) = 2

----------------------------------------------------------------------------
(* C39 *)

\* The stream has returned end-of-sequence or an Err item.
ReturnedEndOrErr ==
    \E k \in 1..Len(yielded) : yielded[k].kind \in {"End", "Err"}

\* C39: is_terminated() is true exactly when the stream has returned
\* end-of-sequence or an Err item: every poll that returns one of them
\* leaves the state Terminated, and after a poll that returned an Ok item
\* the state is not Terminated.
C39_IsTerminatedAgrees ==
    /\ IsTerminated <=> ReturnedEndOrErr
    /\ (yielded # <<>> /\ yielded[Len(yielded)].kind = "Ok") => ~IsTerminated

\* A transport error after one Content delta: the Err item was returned,
\* end-of-sequence was not, and is_terminated() is true.
C39_Witness ==
    /\ IsTerminated
    /\ Len(consumed) = 2
    /\ consumed[2].ev = "Err"
    /\ Len(yielded) = 2
    /\ yielded[1].kind = "Ok"
    /\ yielded[2] = Item("Err", "StreamError", <<>>)
    /\ pc = "idle"

====
